---- MODULE Spec2Model ----
(***************************************************************************)
(* The conditional-touch audit rule of models/update_rules.py              *)
(* (skip_updated_at, registered as a before_update listener) together with *)
(* the part of the ORM unit of work it runs in: attribute assignment with  *)
(* per-attribute history, the before_update dispatch of a flush, the       *)
(* collection of the UPDATE's SET parameters, the onupdate defaults of the *)
(* timestamp columns, and the expiry of the instance on commit.            *)
(*                                                                         *)
(* Column values are small naturals; timestamps are the values of the      *)
(* clock `now`, which is 0 when the row is created and grows by one with    *)
(* every commit.                                                            *)
(***************************************************************************)
EXTENDS Integers, FiniteSets, Sequences, TLC

\* Number of commits in a behaviour, and of attribute assignments by the caller.
MaxTime == 2
MaxSets == 2

\* sqlalchemy's NO_VALUE symbol: what loaded_value yields for an attribute that
\* is not present in the instance's dictionary.
NO_VALUE == -1

\* The values a caller assigns to a column.
Vals == {0, 1}

EmptyFn == [c \in {} |-> 0]

Get(f, k) == IF k \in DOMAIN f THEN f[k] ELSE NO_VALUE

------------------------------------------------------------------------------
(* The schema: the columns each mapped class declares.                      *)

\* TimestampMixin (models/mixins.py): created_at, and updated_at with
\* default=func.now(), onupdate=func.now().
TimestampMixin == {"created_at", "updated_at"}

ProjectCols ==
    {"project_id", "org_id", "name", "description", "requirements_text",
     "status", "is_active", "date_created", "date_updated", "completed_at",
     "deleted_at", "client_pm_id", "our_pm_id"} \cup TimestampMixin

FileCols ==
    {"file_id", "name", "description", "uploaded_by", "status", "file_type",
     "date_created", "date_updated", "is_active", "deleted_at", "size_bytes",
     "mime_type", "project_id", "active_version_id"} \cup TimestampMixin

FileVersionCols ==
    {"version_id", "file_id", "version_number", "storage_path", "checksum",
     "size_bytes", "mime_type", "uploaded_by", "uploaded_at", "is_active",
     "source_file_version_id", "generation_method", "llm_model", "llm_params"}
    \cup TimestampMixin

OrganizationCols ==
    {"org_id", "name", "description", "is_active", "deleted_at"}
    \cup TimestampMixin

UserCols ==
    {"user_id", "email", "org_id", "availability", "language_expertise",
     "skill_score", "skill_level", "qa_approval_rate", "completed_task_count",
     "is_active"} \cup TimestampMixin

RoleCols == {"role_id", "name", "description"} \cup TimestampMixin

PermissionCols == {"permission_id", "name", "description"} \cup TimestampMixin

AnnotationJobCols ==
    {"job_id", "file_id", "project_id", "language", "priority", "status",
     "review_status", "is_active", "deleted_at", "due_date", "completed_at"}
    \cup TimestampMixin

AssignmentCols ==
    {"assignment_id", "job_id", "user_id", "role", "status", "is_active",
     "completed_at", "assigned_at", "updated_at"} \cup TimestampMixin

ReviewCols ==
    {"review_id", "job_id", "reviewer_id", "status", "feedback", "is_active",
     "deleted_at"} \cup TimestampMixin

ExportLogCols ==
    {"export_id", "project_id", "requested_by", "storage_path", "checksum",
     "status", "date_requested", "date_completed"} \cup TimestampMixin

EventLogCols ==
    {"event_id", "entity_type", "entity_id", "event_type", "user_id",
     "event_metadata", "event_time", "file_id", "file_version_id",
     "project_id", "job_id", "export_id", "review_id"} \cup TimestampMixin

\* __tablename__ -> mapped columns.
TableColumns ==
    [ project        |-> ProjectCols,
      file           |-> FileCols,
      file_version   |-> FileVersionCols,
      user           |-> UserCols,
      annotation_job |-> AnnotationJobCols,
      assignment     |-> AssignmentCols,
      review         |-> ReviewCols,
      export_log     |-> ExportLogCols,
      organization   |-> OrganizationCols,
      role           |-> RoleCols,
      permission     |-> PermissionCols,
      event_log      |-> EventLogCols ]

Tables == DOMAIN TableColumns

Columns(t) == TableColumns[t]

\* The columns the modelled callers assign: for every table some of its
\* meaningful columns, some columns outside its set, and its timestamps.
CallerCols ==
    [ project        |-> {"status", "description", "requirements_text",
                          "updated_at", "date_updated"},
      file           |-> {"status", "description", "size_bytes",
                          "updated_at", "date_updated"},
      file_version   |-> {"is_active", "llm_model", "checksum", "updated_at"},
      user           |-> {"email", "is_active", "completed_task_count",
                          "updated_at"},
      annotation_job |-> {"status", "due_date", "completed_at", "updated_at"},
      assignment     |-> {"status", "user_id", "is_active", "updated_at"},
      review         |-> {"status", "feedback", "deleted_at", "updated_at"},
      export_log     |-> {"status", "checksum", "date_completed", "updated_at"},
      organization   |-> {"name", "description", "deleted_at", "updated_at"},
      role           |-> {"name", "description", "updated_at"},
      permission     |-> {"name", "updated_at"},
      event_log      |-> {"event_type", "updated_at"} ]

\* Columns declared with onupdate=func.now(): the UPDATE sets them to the
\* current time whenever they are absent from its SET parameters.
OnUpdateCols(t) ==
    (IF "updated_at" \in Columns(t) THEN {"updated_at"} ELSE {})
    \cup (IF t \in {"project", "file"} THEN {"date_updated"} ELSE {})

------------------------------------------------------------------------------
(* update_rules.py                                                          *)

\* The project entry as the specification describes it: without description.
ProjectRealColsNoDescription ==
    {"status", "name", "client_pm_id", "our_pm_id", "is_active"}

ProjectRealCols ==
    {"status", "name", "description", "client_pm_id", "our_pm_id", "is_active"}

\* The file entry as the specification describes it: without description.
FileRealColsNoDescription ==
    {"status", "name", "active_version_id", "is_active"}

FileRealCols ==
    {"status", "name", "description", "active_version_id", "is_active"}

FileVersionRealCols ==
    {"is_active", "generation_method", "llm_model", "llm_params"}

UserRealCols ==
    {"email", "org_id", "availability", "language_expertise", "skill_score",
     "skill_level", "qa_approval_rate", "is_active"}

AnnotationJobRealCols ==
    {"status", "review_status", "priority", "language", "due_date", "is_active"}

\* An entry that lists the audit timestamp itself.
AssignmentRealColsWithUpdatedAt == {"status", "role", "user_id", "updated_at"}

AssignmentRealCols == {"status", "role", "user_id"}

\* A misspelt entry: review declares no column "comment".
ReviewRealColsTypo == {"status", "comment", "is_active"}

ReviewRealCols == {"status", "feedback", "is_active"}

ExportLogRealCols == {"status", "storage_path", "checksum"}

OrganizationRealCols == {"name", "description", "is_active"}

REAL_UPDATE_COLS ==
    [ project        |-> ProjectRealCols,
      file           |-> FileRealCols,
      file_version   |-> FileVersionRealCols,
      user           |-> UserRealCols,
      annotation_job |-> AnnotationJobRealCols,
      assignment     |-> AssignmentRealCols,
      review         |-> ReviewRealCols,
      export_log     |-> ExportLogRealCols,
      organization   |-> OrganizationRealCols ]

\* The models event.listen(model, "before_update", skip_updated_at) is called for.
Registered ==
    {"project", "file", "file_version", "user", "annotation_job",
     "assignment", "review", "export_log", "organization"}

------------------------------------------------------------------------------
VARIABLES
    tablename,        \* instance -> __tablename__
    row,              \* instance -> its persisted row
    dict,             \* instance -> its dictionary of loaded attributes
    committed_state,  \* instance -> the pre-assignment values
    modified,         \* instance -> in session.dirty
    now,              \* the database clock
    nsets,            \* attribute assignments made so far
    last,             \* instance -> what its latest commit did
    lastReal,         \* instance -> time of the latest commit that changed a
                      \*             meaningful column (0: none since creation)
    plain,            \* instance -> every assignment so far gave a column other
                      \*             than a timestamp a value its row does not hold
    persistent,       \* instance -> it has a row (FALSE: pending, not yet inserted)
    flushing,         \* instance -> its state as its flush began, while the flush
                      \*             is between before_update and the UPDATE
    config            \* the module-level dictionary REAL_UPDATE_COLS

vars == <<tablename, row, dict, committed_state, modified, now, nsets, last,
          lastReal, plain, persistent, flushing, config>>

\* A lookup whose default is a non-empty set.
ConfiguredColsDefaultName(t) ==
    IF t \in DOMAIN config THEN config[t] ELSE {"name"}

\* REAL_UPDATE_COLS.get(target.__tablename__, set())
ConfiguredCols(t) ==
    IF t \in DOMAIN config THEN config[t] ELSE {}

\* The dictionary after a lookup by setdefault: a missing key is inserted.
AfterSetDefault(cfg, t) == IF t \in DOMAIN cfg THEN cfg ELSE (t :> {}) @@ cfg

\* The dictionary after REAL_UPDATE_COLS.get(name, set()): as it was.
AfterGet(cfg, t) == cfg

------------------------------------------------------------------------------
(* The in-memory state of one instance: st.dict holds the loaded or         *)
(* assigned attributes, st.committed_state the value each assigned          *)
(* attribute had before its first assignment since the last flush           *)
(* (NO_VALUE when it was not loaded), st.modified whether the instance is   *)
(* in session.dirty.                                                        *)

\* target.<key> = value  (a scalar column attribute without active history).
ScalarSet(st, key, value) ==
    [ dict            |-> (key :> value) @@ st.dict,
      committed_state |-> IF key \in DOMAIN st.committed_state
                          THEN st.committed_state
                          ELSE (key :> Get(st.dict, key)) @@ st.committed_state,
      modified        |-> TRUE ]

\* loaded_value read as the value recorded before the first assignment.
LoadedValueCommitted(st, key) == Get(st.committed_state, key)

\* loaded_value read through a module-level reference to the first target.
LoadedValueShared(st, key) == Get(dict[1], key)

\* state.attrs[key].loaded_value: the value in the instance's dictionary.
LoadedValue(st, key) == Get(st.dict, key)

\* state.attrs[key].history.has_changes(): added or deleted is non-empty.
HasChanges(st, key) ==
    IF key \notin DOMAIN st.committed_state
    THEN FALSE
    ELSE LET current  == Get(st.dict, key)
             original == st.committed_state[key]
         IN  IF current # NO_VALUE /\ current = original
             THEN FALSE
             ELSE current # NO_VALUE \/ original # NO_VALUE

\* state.attrs[c] is a KeyError for a name the mapper does not map.
HookRaises(t) ==
    LET cols == ConfiguredCols(t)
    IN  cols # {} /\ (cols \cup {"updated_at"}) \ Columns(t) # {}

\* The condition with its negation dropped.
HookWritesOnChange(t, st) ==
    LET cols == ConfiguredCols(t)
    IN  cols # {} /\ \E c \in cols : HasChanges(st, c)

\* The condition taken over the columns outside the set as well: a change
\* outside the set reverts the timestamp.
HookWritesOnOther(t, st) ==
    LET cols == ConfiguredCols(t)
    IN  /\ cols # {}
        /\ \/ ~ \E c \in cols : HasChanges(st, c)
           \/ \E c \in (Columns(t) \ cols) \ {"updated_at"} : HasChanges(st, c)

\* The condition of skip_updated_at:
\* cols and not any(state.attrs[c].history.has_changes() for c in cols)
HookWrites(t, st) ==
    LET cols == ConfiguredCols(t)
    IN  cols # {} /\ ~ \E c \in cols : HasChanges(st, c)

\* A hook that undoes the whole pending update when it suppresses.
skip_updated_at_reverting(t, st) ==
    IF HookWrites(t, st)
    THEN [ dict            |-> [c \in DOMAIN st.dict \ DOMAIN st.committed_state
                                   |-> st.dict[c]],
           committed_state |-> EmptyFn,
           modified        |-> st.modified ]
    ELSE st

\* skip_updated_at(mapper, connection, target), on a target it does not raise for.
skip_updated_at(t, st) ==
    IF HookWrites(t, st)
    THEN ScalarSet(st, "updated_at", LoadedValue(st, "updated_at"))
    ELSE st

\* Listeners registered for every mapper event.
ListenersAnyEvent(event) == Registered

\* The models that have skip_updated_at listening for the mapper event:
\* event.listen is called with "before_update" and with no other event.
Listeners(event) == IF event = "before_update" THEN Registered ELSE {}

\* The before_update dispatch of the flush.
BeforeUpdate(t, st) ==
    IF t \in Listeners("before_update") THEN skip_updated_at(t, st) ELSE st

\* The before_insert dispatch of the flush.
BeforeInsert(t, st) ==
    IF t \in Listeners("before_insert") THEN skip_updated_at(t, st) ELSE st

------------------------------------------------------------------------------
(* The flush.                                                               *)

\* The SET parameters of the UPDATE: every assigned column whose value is not
\* equal to the value recorded in committed_state.
UpdateParams(t, st) ==
    LET keys == {c \in DOMAIN st.committed_state \cap Columns(t) :
                    st.dict[c] # st.committed_state[c]}
    IN  [c \in keys |-> st.dict[c]]

\* The row after the flush of st at time `at`: no statement when there are no
\* parameters, else the parameters and the onupdate defaults of the columns
\* that are not among them.
FlushRow(t, st, old, at) ==
    LET params == UpdateParams(t, st)
    IN  IF DOMAIN params = {}
        THEN old
        ELSE [c \in Columns(t) |->
                 IF c \in DOMAIN params THEN params[c]
                 ELSE IF c \in OnUpdateCols(t) THEN at
                 ELSE old[c]]

\* Columns declared with default=func.now() (file_version.uploaded_at with
\* server_default): the INSERT sets them to the current time when the caller
\* gave no value.
DefaultNowCols(t) ==
    (Columns(t) \cap TimestampMixin)
    \cup (IF t \in {"project", "file"} THEN {"date_created", "date_updated"} ELSE {})
    \cup (IF t = "assignment" THEN {"assigned_at", "updated_at"} ELSE {})
    \cup (IF t = "export_log" THEN {"date_requested"} ELSE {})
    \cup (IF t = "event_log" THEN {"event_time"} ELSE {})
    \cup (IF t = "file_version" THEN {"uploaded_at"} ELSE {})

\* The row the INSERT of st at time `at` stores: the values the caller gave,
\* the current time for the other default=func.now() columns, and 0 (NULL or
\* the column's constant default) elsewhere.
InsertRow(t, st, at) ==
    [c \in Columns(t) |->
        IF c \in DOMAIN st.dict THEN st.dict[c]
        ELSE IF c \in DefaultNowCols(t) THEN at
        ELSE 0]

------------------------------------------------------------------------------
Ids == DOMAIN tablename

Pending(i) ==
    [ dict            |-> dict[i],
      committed_state |-> committed_state[i],
      modified        |-> modified[i] ]

\* No flush of the instance is under way.
NotFlushing == [dict |-> EmptyFn, committed_state |-> EmptyFn, modified |-> FALSE]

NoCommit ==
    [ done |-> FALSE, hookWrote |-> FALSE, baseline |-> FALSE, changed |-> {},
      assigned |-> {}, emitted |-> FALSE, failed |-> FALSE, prev |-> 0,
      placeholder |-> FALSE, standing |-> NO_VALUE ]

\* A persisted row created at time 0, in a session that has either just
\* loaded it or has expired it.
InitOn(ids) ==
    /\ tablename \in [ids -> Tables]
    /\ row = [i \in ids |-> [c \in Columns(tablename[i]) |-> 0]]
    /\ \E loaded \in [ids -> BOOLEAN] :
          dict = [i \in ids |-> IF loaded[i] THEN row[i] ELSE EmptyFn]
    /\ committed_state = [i \in ids |-> EmptyFn]
    /\ modified = [i \in ids |-> FALSE]
    /\ now = 1
    /\ nsets = 0
    /\ last = [i \in ids |-> NoCommit]
    /\ lastReal = [i \in ids |-> 0]
    /\ plain = [i \in ids |-> TRUE]
    /\ persistent = [i \in ids |-> TRUE]
    /\ flushing = [i \in ids |-> NotFlushing]
    /\ config = REAL_UPDATE_COLS

Init == InitOn({1})

\* The caller assigns a column of a persistent instance.
SetAttr(i, c, v) ==
    /\ nsets < MaxSets
    /\ ~ flushing[i].modified
    /\ c \in CallerCols[tablename[i]]
    /\ LET st == ScalarSet(Pending(i), c, v)
       IN  /\ dict' = [dict EXCEPT ![i] = st.dict]
           /\ committed_state' = [committed_state EXCEPT ![i] = st.committed_state]
           /\ modified' = [modified EXCEPT ![i] = st.modified]
    /\ nsets' = nsets + 1
    /\ plain' = [plain EXCEPT ![i] =
                    @ /\ c \notin OnUpdateCols(tablename[i]) /\ v # row[i][c]]
    /\ UNCHANGED <<tablename, row, now, last, lastReal, persistent, flushing,
                   config>>

\* A collection of the instance is modified (a related object is added or a
\* cascade reaches it): the instance becomes dirty, no column is assigned.
Touch(i) ==
    /\ persistent[i]
    /\ ~ flushing[i].modified
    /\ ~ modified[i]
    /\ modified' = [modified EXCEPT ![i] = TRUE]
    /\ UNCHANGED <<tablename, row, dict, committed_state, now, nsets, last,
                   lastReal, plain, persistent, flushing, config>>

\* An unloaded attribute is read: every unloaded column is loaded from the row.
Load(i) ==
    /\ persistent[i]
    /\ ~ flushing[i].modified
    /\ DOMAIN dict[i] # Columns(tablename[i])
    /\ dict' = [dict EXCEPT ![i] =
                  [c \in Columns(tablename[i]) |->
                      IF c \in DOMAIN dict[i] THEN dict[i][c] ELSE row[i][c]]]
    /\ UNCHANGED <<tablename, row, committed_state, modified, now, nsets, last,
                   lastReal, plain, persistent, flushing, config>>

\* The state the flush of st has after its before_update dispatch (st itself
\* when the hook raises).
Dispatched(t, st) ==
    IF t \in Registered /\ HookRaises(t) THEN st ELSE BeforeUpdate(t, st)

\* The flush of instance i, begun on st and left as hooked by before_update,
\* emits the UPDATE, and the commit expires the instance.
PersistAndExpire(i, st, hooked) ==
    LET t      == tablename[i]
        raises == t \in Registered /\ HookRaises(t)
        wrote  == t \in Registered /\ ~ raises /\ HookWrites(t, st)
        params == UpdateParams(t, hooked)
        bad    == raises \/ \E c \in DOMAIN params : params[c] = NO_VALUE
        new    == IF bad THEN row[i] ELSE FlushRow(t, hooked, row[i], now)
        chg    == {c \in DOMAIN st.committed_state : st.dict[c] # row[i][c]}
    IN  /\ row' = [row EXCEPT ![i] = new]
        /\ dict' = [dict EXCEPT ![i] = EmptyFn]
        /\ committed_state' = [committed_state EXCEPT ![i] = EmptyFn]
        /\ modified' = [modified EXCEPT ![i] = FALSE]
        /\ now' = now + 1
        /\ last' = [last EXCEPT ![i] =
              [ done        |-> TRUE,
                hookWrote   |-> wrote,
                baseline    |-> "updated_at" \in DOMAIN st.dict,
                changed     |-> chg,
                assigned    |-> DOMAIN st.committed_state,
                emitted     |-> ~ bad /\ DOMAIN params # {},
                failed      |-> bad,
                prev        |-> row[i]["updated_at"],
                placeholder |-> /\ "updated_at" \in DOMAIN hooked.dict
                                /\ hooked.dict["updated_at"] = NO_VALUE,
                standing    |-> Get(hooked.dict, "updated_at") ]]
        /\ lastReal' = [lastReal EXCEPT ![i] =
              IF ~ bad /\ chg \cap ConfiguredCols(t) # {} THEN now ELSE @]
        /\ UNCHANGED <<tablename, nsets, plain, persistent>>

\* The module-level dictionary after the before_update dispatch for type t.
ConfigAfterDispatch(t) ==
    IF t \in Listeners("before_update") THEN AfterGet(config, t) ELSE config

\* session.commit(): the flush calls before_update for the dirty instance,
\* emits its UPDATE, and the commit expires the instance.
Commit(i) ==
    /\ persistent[i]
    /\ ~ flushing[i].modified
    /\ modified[i]
    /\ now <= MaxTime
    /\ PersistAndExpire(i, Pending(i), Dispatched(tablename[i], Pending(i)))
    /\ config' = ConfigAfterDispatch(tablename[i])
    /\ UNCHANGED flushing

\* The first half of a commit, for sessions that run side by side: the flush
\* has called before_update for the dirty instance and has not yet emitted
\* its UPDATE.
FlushBegin(i) ==
    LET hooked == Dispatched(tablename[i], Pending(i))
    IN  /\ persistent[i]
        /\ ~ flushing[i].modified
        /\ modified[i]
        /\ now <= MaxTime
        /\ flushing' = [flushing EXCEPT ![i] = Pending(i)]
        /\ dict' = [dict EXCEPT ![i] = hooked.dict]
        /\ committed_state' = [committed_state EXCEPT ![i] = hooked.committed_state]
        /\ modified' = [modified EXCEPT ![i] = hooked.modified]
        /\ config' = ConfigAfterDispatch(tablename[i])
        /\ UNCHANGED <<tablename, row, now, nsets, last, lastReal, plain,
                       persistent>>

\* The second half: the UPDATE and the commit.
FlushWrite(i) ==
    /\ flushing[i].modified
    /\ PersistAndExpire(i, flushing[i], Pending(i))
    /\ flushing' = [flushing EXCEPT ![i] = NotFlushing]
    /\ UNCHANGED config

\* session.add(obj); session.commit() for a pending instance: the flush calls
\* before_insert, emits the INSERT, and the commit expires the instance.  An
\* INSERT with a NO_VALUE parameter fails and leaves the instance pending.
Insert(i) ==
    LET t      == tablename[i]
        st     == Pending(i)
        hooked == BeforeInsert(t, st)
        bad    == \E c \in DOMAIN hooked.dict : hooked.dict[c] = NO_VALUE
    IN  /\ ~ persistent[i]
        /\ ~ last[i].failed
        /\ now <= MaxTime
        /\ last' = [last EXCEPT ![i] =
              [ NoCommit EXCEPT !.hookWrote = (hooked # st),
                                !.assigned  = DOMAIN st.committed_state,
                                !.failed    = bad,
                                !.prev      = now ]]
        /\ IF bad
           THEN UNCHANGED <<row, dict, committed_state, modified, now, persistent>>
           ELSE /\ row' = [row EXCEPT ![i] = InsertRow(t, hooked, now)]
                /\ dict' = [dict EXCEPT ![i] = EmptyFn]
                /\ committed_state' = [committed_state EXCEPT ![i] = EmptyFn]
                /\ modified' = [modified EXCEPT ![i] = FALSE]
                /\ now' = now + 1
                /\ persistent' = [persistent EXCEPT ![i] = TRUE]
        /\ lastReal' = [lastReal EXCEPT ![i] = IF bad THEN @ ELSE now]
        /\ UNCHANGED <<tablename, nsets, plain, flushing, config>>

Next ==
    \/ \E i \in Ids, v \in Vals : \E c \in CallerCols[tablename[i]] : SetAttr(i, c, v)
    \/ \E i \in Ids : Touch(i)
    \/ \E i \in Ids : Load(i)
    \/ \E i \in Ids : Commit(i)

Spec == Init /\ [][Next]_vars

\* A new object of any mapped class, constructed and not yet added: no row,
\* nothing loaded.
InitPending(ids) ==
    /\ tablename \in [ids -> Tables]
    /\ row = [i \in ids |-> [c \in Columns(tablename[i]) |-> 0]]
    /\ dict = [i \in ids |-> EmptyFn]
    /\ committed_state = [i \in ids |-> EmptyFn]
    /\ modified = [i \in ids |-> FALSE]
    /\ now = 1
    /\ nsets = 0
    /\ last = [i \in ids |-> NoCommit]
    /\ lastReal = [i \in ids |-> 0]
    /\ plain = [i \in ids |-> TRUE]
    /\ persistent = [i \in ids |-> FALSE]
    /\ flushing = [i \in ids |-> NotFlushing]
    /\ config = REAL_UPDATE_COLS

InitInsert == InitPending({1})

\* The life of an object from its construction: assignments, the insert, and
\* the updates that follow.
NextInsert ==
    \/ \E i \in Ids, v \in Vals : \E c \in CallerCols[tablename[i]] : SetAttr(i, c, v)
    \/ \E i \in Ids : Insert(i)
    \/ \E i \in Ids : Touch(i)
    \/ \E i \in Ids : Load(i)
    \/ \E i \in Ids : Commit(i)

SpecInsert == InitInsert /\ [][NextInsert]_vars

\* The types of the second of two instances updated side by side: with a
\* column set, as the first, and without one.
TwoTables == {"assignment", "role"}

\* The columns their callers assign: a meaningful one, one outside the set,
\* and the timestamp.
TwoCols == {"status", "is_active", "name", "updated_at"}

InitTwo ==
    /\ InitOn({1, 2})
    /\ tablename[1] = "assignment"
    /\ tablename[2] \in TwoTables

\* Two instances, each in a session of its own: the two flushes interleave at
\* the granularity of the before_update call and the UPDATE.  Each instance is
\* loaded or expired as the behaviour begins and is expired by its commit.
NextTwo ==
    \/ \E i \in Ids, v \in Vals : \E c \in TwoCols : SetAttr(i, c, v)
    \/ \E i \in Ids : Touch(i)
    \/ \E i \in Ids : FlushBegin(i)
    \/ \E i \in Ids : FlushWrite(i)

SpecTwo == InitTwo /\ [][NextTwo]_vars

------------------------------------------------------------------------------
(* Properties.                                                              *)

Configured(i) == tablename[i] \in DOMAIN REAL_UPDATE_COLS

Meaningful(i) == ConfiguredCols(tablename[i])

\* The latest commit of i left updated_at at the commit's time, later than the
\* value the row held before it.
Advanced(i) ==
    /\ row[i]["updated_at"] = now - 1
    /\ row[i]["updated_at"] > last[i].prev

\* The latest commit of i left updated_at at the value the row held before it.
Kept(i) == row[i]["updated_at"] = last[i].prev

\* The latest commit of i was an update by a caller that assigned no value to
\* updated_at and changed exactly the columns cs.
ChangedExactly(i, t, cs) ==
    /\ tablename[i] = t
    /\ last[i].done
    /\ "updated_at" \notin last[i].assigned
    /\ last[i].changed = cs

\* C1: for a configured type, an update whose changed columns all lie outside
\* the meaningful set leaves the committed updated_at at its previously
\* persisted value.  Stated for the callers that only ever assign columns
\* other than timestamps, each to a value its row does not hold.
C1_NonMeaningfulKeepsUpdatedAt ==
    \A i \in Ids :
        (/\ Configured(i)
         /\ plain[i]
         /\ last[i].done
         /\ last[i].assigned \cap Meaningful(i) = {}
         /\ last[i].changed \cap Meaningful(i) = {})
        => Kept(i)

\* C2: for a configured type, an update that changes only meaningful columns
\* (the caller not assigning updated_at itself) is left alone by the hook, and
\* its commit sets updated_at to the commit's time, later than the prior value.
C2_MeaningfulAdvances ==
    \A i \in Ids :
        (/\ Configured(i)
         /\ last[i].done
         /\ "updated_at" \notin last[i].assigned
         /\ last[i].changed # {}
         /\ last[i].changed \subseteq Meaningful(i))
        => (~ last[i].hookWrote /\ Advanced(i))

C2_Witness ==
    \E i \in Ids : ChangedExactly(i, "organization", {"name"}) /\ Advanced(i)

\* C3: for a configured type the committed updated_at is the time of the
\* latest commit that changed a meaningful column, or the creation time when
\* there was none.  Stated for the callers that only ever assign columns other
\* than timestamps, each to a value its row does not hold.
C3_UpdatedAtIsLastMeaningfulChange ==
    \A i \in Ids :
        (Configured(i) /\ plain[i]) => row[i]["updated_at"] = lastReal[i]

\* C4: for a configured type, an update that changes a meaningful column and
\* a column outside the set (the caller not assigning updated_at itself) is
\* left alone by the hook and advances updated_at.
C4_MixedAdvances ==
    \A i \in Ids :
        (/\ Configured(i)
         /\ last[i].done
         /\ "updated_at" \notin last[i].assigned
         /\ last[i].changed \cap Meaningful(i) # {}
         /\ last[i].changed \ Meaningful(i) # {})
        => (~ last[i].hookWrote /\ Advanced(i))

C4_Witness ==
    \E i \in Ids :
        /\ ChangedExactly(i, "project", {"status", "requirements_text"})
        /\ Advanced(i)

\* C5: for a type absent from REAL_UPDATE_COLS the hook is the identity on
\* every pending state and is not dispatched, and every commit that emits an
\* UPDATE (the caller not assigning updated_at itself) advances updated_at.
C5_UnconfiguredUntouched ==
    \A i \in Ids :
        ~ Configured(i) =>
            /\ skip_updated_at(tablename[i], Pending(i)) = Pending(i)
            /\ BeforeUpdate(tablename[i], Pending(i)) = Pending(i)
            /\ last[i].done =>
                  /\ ~ last[i].hookWrote
                  /\ (last[i].emitted /\ "updated_at" \notin last[i].assigned) => Advanced(i)

C5_Witness ==
    \E i \in Ids :
        /\ ChangedExactly(i, "role", {"description"})
        /\ last[i].emitted
        /\ Advanced(i)

\* C6: on every pending state of a configured type, running the hook a second
\* time changes nothing the first run left: the same in-memory state, hence
\* the same pending updated_at, the same history of the meaningful columns
\* and the same row written by the flush.
C6_HookIdempotent ==
    \A i \in Ids :
        Configured(i) =>
            LET t  == tablename[i]
                s1 == skip_updated_at(t, Pending(i))
                s2 == skip_updated_at(t, s1)
            IN  /\ s2 = s1
                /\ HookWrites(t, s1) = HookWrites(t, Pending(i))
                /\ FlushRow(t, s2, row[i], now) = FlushRow(t, s1, row[i], now)

\* A dirty instance on which the hook assigns: its first run changes the state.
C6_Witness ==
    \E i \in Ids :
        /\ Configured(i)
        /\ modified[i]
        /\ HookWrites(tablename[i], Pending(i))
        /\ skip_updated_at(tablename[i], Pending(i)) # Pending(i)

\* C7: for every registered type the hook raises on no pending state, and no
\* commit fails.
C7_HookNeverRaises ==
    \A i \in Ids :
        /\ tablename[i] \in Registered => ~ HookRaises(tablename[i])
        /\ ~ last[i].failed

\* A commit whose hook ran its assignment with updated_at unloaded.
C7_Witness ==
    \E i \in Ids :
        /\ tablename[i] \in Registered
        /\ last[i].done
        /\ last[i].hookWrote
        /\ ~ last[i].baseline
        /\ last[i].emitted

\* C8 as stated: a Project update in which the caller sets only description
\* leaves updated_at at its persisted value.
C8_ProjectDescriptionKept ==
    \A i \in Ids : ChangedExactly(i, "project", {"description"}) => Kept(i)

\* C8 amended: description is in the project's meaningful set, so a Project
\* update that changes only description is left alone by the hook and
\* advances updated_at to the commit's time.
C8_ProjectDescriptionAdvances ==
    \A i \in Ids :
        ChangedExactly(i, "project", {"description"}) =>
            /\ "description" \in REAL_UPDATE_COLS["project"]
            /\ ~ last[i].hookWrote
            /\ Advanced(i)

C8_Witness ==
    \E i \in Ids :
        /\ ChangedExactly(i, "project", {"description"})
        /\ last[i].prev = 0
        /\ row[i]["updated_at"] = 1

\* C9 as stated: changing only name or only description of an Organization
\* advances updated_at, and changing only description of a File leaves it.
C9_DescriptionAsymmetric ==
    \A i \in Ids :
        /\ \A c \in {"name", "description"} :
              ChangedExactly(i, "organization", {c}) => Advanced(i)
        /\ ChangedExactly(i, "file", {"description"}) => Kept(i)

\* C9 amended: the sets of Organization and of File both hold description
\* (Organization's also name); changing only name or only description of an
\* Organization, or only description of a File, is left alone by the hook and
\* advances updated_at.
C9_DescriptionInBoth ==
    /\ {"name", "description"} \subseteq REAL_UPDATE_COLS["organization"]
    /\ "description" \in REAL_UPDATE_COLS["file"]
    /\ \A i \in Ids :
          /\ \A c \in {"name", "description"} :
                ChangedExactly(i, "organization", {c}) =>
                    (~ last[i].hookWrote /\ Advanced(i))
          /\ ChangedExactly(i, "file", {"description"}) =>
                (~ last[i].hookWrote /\ Advanced(i))

C9_Witness ==
    \E i \in Ids :
        /\ ChangedExactly(i, "file", {"description"})
        /\ Advanced(i)

\* C10: when updated_at is not loaded as the hook runs, the hook does not
\* assign: it leaves no placeholder as the pending updated_at.
C10_NoBaselineNoAction ==
    \A i \in Ids :
        (tablename[i] \in Registered /\ last[i].done /\ ~ last[i].baseline)
        => (~ last[i].hookWrote /\ ~ last[i].placeholder)

\* C11: the hook listens for before_update only.  On no pending new object
\* does the insert's dispatch reach it, and an insert (the caller not assigning
\* updated_at itself) stores the creation time as updated_at, whichever other
\* columns the caller set; no insert fails.
C11_InsertStoresCreationTime ==
    /\ Listeners("before_insert") = {}
    /\ \A i \in Ids :
          /\ ~ persistent[i] => BeforeInsert(tablename[i], Pending(i)) = Pending(i)
          /\ ~ last[i].failed
          /\ (persistent[i] /\ ~ last[i].done) =>
                /\ ~ last[i].hookWrote
                /\ row[i]["created_at"] = last[i].prev
                /\ "updated_at" \notin last[i].assigned =>
                      row[i]["updated_at"] = last[i].prev

\* A registered type inserted with only a column outside its set assigned.
C11_Witness ==
    \E i \in Ids :
        /\ tablename[i] = "project"
        /\ persistent[i]
        /\ ~ last[i].done
        /\ last[i].assigned = {"requirements_text"}
        /\ row[i]["requirements_text"] = 1
        /\ row[i]["updated_at"] = 1

\* C12: the hook runs on the caller's complete pending state and before the
\* UPDATE is built: it assigns exactly when none of the columns the caller
\* assigned in this update is a changed meaningful column, and when it has
\* assigned, the updated_at an emitted UPDATE leaves in the row is the pending
\* updated_at that stood when the hook returned.
C12_WrittenIsStandingAfterHook ==
    \A i \in Ids :
        (Configured(i) /\ last[i].done) =>
            /\ last[i].changed \cap Meaningful(i) # {} => ~ last[i].hookWrote
            /\ (/\ last[i].hookWrote
                /\ last[i].emitted
                /\ last[i].standing # NO_VALUE)
               => row[i]["updated_at"] = last[i].standing

\* Everything the model holds about instance i.
Own(i) ==
    <<row[i], dict[i], committed_state[i], modified[i], flushing[i], last[i],
      lastReal[i], plain[i], persistent[i], tablename[i]>>

\* What a before_update call for i alone leaves as i's pending state, from
\* i's state and its type's column set only.
AloneHooked(i) ==
    LET t  == tablename[i]
        st == Pending(i)
    IN  IF /\ t \in DOMAIN REAL_UPDATE_COLS
           /\ \A c \in REAL_UPDATE_COLS[t] : ~ HasChanges(st, c)
        THEN ScalarSet(st, "updated_at", Get(st.dict, "updated_at"))
        ELSE st

\* C13: with two instances whose flushes interleave, every step of one
\* instance leaves everything about the other and the configuration as they
\* were; a before_update call leaves the pending state it would leave alone,
\* a function of its own target; and the UPDATE leaves the row the flush of
\* that instance alone would leave at that time.
C13_InstancesIndependent ==
    [][\A i \in Ids :
          Own(i)' # Own(i) =>
              /\ \A j \in Ids \ {i} : Own(j)' = Own(j)
              /\ config' = config
              /\ (~ flushing[i].modified /\ flushing[i]'.modified) =>
                    Pending(i)' = AloneHooked(i)
              /\ (flushing[i].modified /\ ~ flushing[i]'.modified) =>
                    row[i]' = FlushRow(tablename[i],
                                       BeforeUpdate(tablename[i], flushing[i]),
                                       row[i], now)
      ]_vars

\* Both flushes are between their before_update call and their UPDATE, and
\* the hook has assigned on one of them.
C13_Witness ==
    /\ Cardinality(Ids) = 2
    /\ \A i \in Ids : flushing[i].modified
    /\ \E i \in Ids : Pending(i) # flushing[i]

\* C14: the configuration is never mutated.  In every reachable state the
\* module-level dictionary has the keys and column sets it was defined with,
\* and the hook's lookup leaves it so for every type, configured or not.
C14_ConfigurationConstant ==
    /\ config = REAL_UPDATE_COLS
    /\ \A t \in Tables : AfterGet(config, t) = config

\* Two commits of a configured instance have each called the hook.
C14_Witness ==
    \E i \in Ids :
        /\ Configured(i)
        /\ last[i].done
        /\ last[i].hookWrote
        /\ now = 3

\* C15: the hook is registered for exactly the types that are keys of the
\* configuration, and for each it decides by that type's own set: it assigns
\* when the caller assigned none of the set's columns and does not when one of
\* them changed; a change to Assignment.is_active alone (is_active is not in
\* assignment's set) has the hook assign and leaves updated_at at its
\* persisted value.
C15_UniformPerTypeSets ==
    /\ Registered = DOMAIN REAL_UPDATE_COLS
    /\ \A i \in Ids :
          (Configured(i) /\ last[i].done) =>
              /\ last[i].changed \cap REAL_UPDATE_COLS[tablename[i]] # {}
                    => ~ last[i].hookWrote
              /\ last[i].assigned \cap REAL_UPDATE_COLS[tablename[i]] = {}
                    => last[i].hookWrote
    /\ \A i \in Ids :
          ChangedExactly(i, "assignment", {"is_active"}) =>
              (last[i].hookWrote /\ Kept(i))

\* C16: the annotation job's set is exactly status, review_status, priority,
\* language, due_date and is_active; an update changing one of them alone
\* advances updated_at, and an update changing only other job columns
\* (file_id, project_id, deleted_at, completed_at) leaves updated_at at its
\* persisted value.
C16_AnnotationJobSet ==
    /\ REAL_UPDATE_COLS["annotation_job"] =
          {"status", "review_status", "priority", "language", "due_date",
           "is_active"}
    /\ \A i \in Ids :
          /\ \A c \in REAL_UPDATE_COLS["annotation_job"] :
                ChangedExactly(i, "annotation_job", {c}) => Advanced(i)
          /\ \A cs \in SUBSET {"file_id", "project_id", "deleted_at",
                                "completed_at"} :
                (cs # {} /\ ChangedExactly(i, "annotation_job", cs)) => Kept(i)

\* C17: on every dirty pending state, of a configured type or not, whether
\* the hook assigns or not, the state the hook returns differs from the one
\* it was given in nothing but the pending updated_at: every other column's
\* pending value and recorded original, the recorded original of updated_at
\* where there was one, and the history of every meaningful column are as
\* before.
C17_HookFrame ==
    \A i \in Ids :
        modified[i] =>
            LET t  == tablename[i]
                st == Pending(i)
                s1 == skip_updated_at(t, st)
            IN  /\ s1.modified = st.modified
                /\ DOMAIN s1.dict \ {"updated_at"} = DOMAIN st.dict \ {"updated_at"}
                /\ \A c \in DOMAIN st.dict \ {"updated_at"} : s1.dict[c] = st.dict[c]
                /\ DOMAIN s1.committed_state \ {"updated_at"}
                      = DOMAIN st.committed_state \ {"updated_at"}
                /\ \A c \in DOMAIN st.committed_state :
                      /\ c \in DOMAIN s1.committed_state
                      /\ s1.committed_state[c] = st.committed_state[c]
                /\ \A c \in ConfiguredCols(t) : HasChanges(s1, c) = HasChanges(st, c)

\* A dirty Project with a pending assignment outside its set, on which the
\* hook assigns.
C17_Witness ==
    \E i \in Ids :
        /\ tablename[i] = "project"
        /\ modified[i]
        /\ "requirements_text" \in DOMAIN committed_state[i]
        /\ dict[i]["requirements_text"] = 1
        /\ HookWrites(tablename[i], Pending(i))
        /\ skip_updated_at(tablename[i], Pending(i)) # Pending(i)

\* C18: change detection is by value against the persisted row.  An update
\* in which the caller assigned meaningful columns, each ending at the value
\* the row holds (assigned that value, or changed and restored), and changed
\* no meaningful column otherwise, counts as no meaningful change: the hook
\* assigns and updated_at stays at its persisted value.
C18_RestoredValueIsNoChange ==
    \A i \in Ids :
        (/\ Configured(i)
         /\ last[i].done
         /\ last[i].assigned # {}
         /\ last[i].assigned \subseteq Meaningful(i)
         /\ last[i].changed = {})
        => (last[i].hookWrote /\ Kept(i))

\* The columns the schema fills in by itself with the current time.
AutoTimestamps == {"updated_at", "created_at", "date_updated", "date_created"}

\* C19: every column name of every configured set is a declared column of
\* its model, so every instance of a configured type has each of them in its
\* row and the hook's per-column history lookup is defined; and no
\* configured set holds an auto-managed timestamp column.
C19_ConfiguredColumnsDeclared ==
    /\ \A t \in DOMAIN config :
          /\ t \in Tables
          /\ config[t] \subseteq Columns(t)
          /\ config[t] \cap AutoTimestamps = {}
    /\ \A i \in Ids :
          Configured(i) =>
              /\ Meaningful(i) \subseteq DOMAIN row[i]
              /\ ~ HookRaises(tablename[i])

\* A User update on which the hook looked up every configured column and
\* found none changed.
C19_Witness ==
    \E i \in Ids :
        /\ ChangedExactly(i, "user", {"completed_task_count"})
        /\ last[i].hookWrote

\* C20: in an update in which the caller assigned updated_at itself, when the
\* caller assigned no meaningful column the hook assigns and the caller's
\* value is discarded, the row keeping its persisted updated_at; when a
\* meaningful column changed the hook does not assign.
C20_CallerTimestampDiscarded ==
    \A i \in Ids :
        (/\ Configured(i)
         /\ last[i].done
         /\ "updated_at" \in last[i].assigned)
        => /\ last[i].assigned \cap Meaningful(i) = {}
                 => (last[i].hookWrote /\ Kept(i))
           /\ last[i].changed \cap Meaningful(i) # {} => ~ last[i].hookWrote

\* C21: for Project and File, an update that is written, in which the caller
\* assigned neither timestamp and changed no meaningful column, sets
\* date_updated to the commit's time while updated_at keeps its persisted
\* value, so that date_updated is later than updated_at.  Stated for the
\* callers that only ever assign columns other than timestamps, each to a
\* value its row does not hold.
C21_DateUpdatedAloneAdvances ==
    \A i \in Ids :
        (/\ tablename[i] \in {"project", "file"}
         /\ plain[i]
         /\ last[i].done
         /\ last[i].emitted
         /\ last[i].assigned \cap {"updated_at", "date_updated"} = {}
         /\ last[i].assigned \cap Meaningful(i) = {})
        => /\ row[i]["date_updated"] = now - 1
           /\ Kept(i)
           /\ row[i]["date_updated"] > row[i]["updated_at"]

====
